---------------------------- MODULE Spec2Model ----------------------------
(***************************************************************************)
(* Model of the LiveKit / Home Assistant voice agent.                      *)
(*                                                                         *)
(*   agent.py   create_mcp_server (bridge connector, bounded retry) and    *)
(*              entrypoint (session orchestrator)                          *)
(*   tools.py   geocode (lru_cache over a coroutine function),             *)
(*              get_weather, get_time_smart, search_web, get_system_status *)
(*                                                                         *)
(* Calls into other libraries (mcp.MCPServerHTTP, asyncio.sleep,           *)
(* session.start, ctx.connect, session.generate_reply, httpx) are recorded *)
(* in the sequence `calls`, in program order; whether such a call raises   *)
(* is a nondeterministic input of the action that makes it.                *)
(* asyncio.sleep with a constant non-negative delay raises only on         *)
(* cancellation of the task, which is not modelled.                        *)
(***************************************************************************)
EXTENDS Integers, Sequences, FiniteSets, TLC

VARIABLES
    environ,          \* os.environ: variable name -> value (Unset when absent)
    calls,            \* external calls made so far, in order
    cms_pc,           \* create_mcp_server: position of the coroutine
    cms_caller,       \* who awaits create_mcp_server: "entrypoint" or "direct"
    cms_max_retries,  \* its parameter max_retries
    cms_url,          \* its local mcp_url
    cms_token,        \* its local mcp_token
    cms_attempt,      \* its loop variable attempt (0-indexed)
    cms_server,       \* its local mcp_server
    cms_ret,          \* its return value, once returned
    cms_exc,          \* the exception that left it, if any
    ep_pc,            \* entrypoint: position of the coroutine
    ep_session,       \* entrypoint's AgentSession (its mcp_servers)
    ep_exc,           \* the exception that left entrypoint, if any
    geocode_cache,    \* lru_cache of geocode: <<address, coroutine>>, oldest first
    geocode_coros,    \* the coroutine objects geocode's calls have created
    weather_task,     \* the get_weather calls: position and locals of each
    http_requests,    \* the HTTP requests the weather adapter has sent, in order
    geocode_calls,    \* the addresses geocode was called with, in order
    tool_pc,          \* the other adapters: position of the running call
    tool_call,        \* the adapter called and its arguments
    tool_backend,     \* what the backing service or library does in this call
    tool_local,       \* search_web's local results
    tool_ret,         \* the string the adapter returned
    tool_exc,         \* the exception that left the adapter, if any
    config,           \* config.py: the configuration resolved at import
    hc_pc,            \* health_check.main: position of the coroutine
    hc_self,          \* the HealthChecker's fields, read from the environment
    hc_reply,         \* what the bridge answers to the GET of the probe
    hc_lines_read,    \* check_mcp_connection's local lines_read
    hc_pos,           \* the lines the probe has taken from response.aiter_lines()
    hc_checks,        \* results["checks"]
    hc_exc,           \* the exception main caught, if any
    hc_exit           \* the exit code of the process, -1 while it runs

connVars == <<environ, calls, cms_pc, cms_caller, cms_max_retries, cms_url,
              cms_token, cms_attempt, cms_server, cms_ret, cms_exc,
              ep_pc, ep_session, ep_exc>>

weatherVars == <<geocode_cache, geocode_coros, weather_task, http_requests,
                 geocode_calls>>

adapterVars == <<tool_pc, tool_call, tool_backend, tool_local, tool_ret,
                 tool_exc>>

healthVars == <<hc_pc, hc_self, hc_reply, hc_lines_read, hc_pos, hc_checks,
                hc_exc, hc_exit>>

vars == <<connVars, weatherVars, adapterVars, healthVars, config>>

---------------------------------------------------------------------------
(* Bounds of the model.                                                    *)

\* create_mcp_server is called directly with max_retries in 0..MaxRetriesBound
MaxRetriesBound == 4

---------------------------------------------------------------------------
(* Values.                                                                 *)

\* os.getenv of a variable that is not set
Unset == "<unset>"

\* Python's None where an object (handle, session, exception) is expected
NoneVal == [kind |-> "None"]

NoException == [kind |-> "NoException"]

EnvNames == {"HOME_ASSISTANT_MCP_URL", "HOME_ASSISTANT_TOKEN"}

\* the values an environment variable takes in the model: unset, empty, set
UrlValues == {Unset, "", "http://homeassistant.local:8123/mcp_server/sse"}
TokenValues == {Unset, "", "eyJ0eXAi"}

\* Python truthiness of an Optional[str]
Truthy(v) == v # Unset /\ v # ""

\* os.getenv(name)
Getenv(name) == environ[name]

\* os.getenv(name, default)
GetenvOr(name, default) ==
    IF environ[name] = Unset THEN default ELSE environ[name]

\* the variables config.py and health_check.py read besides the two above
ConfigEnvNames == {"HA_URL", "HA_TOKEN", "HA_MCP_RETRY_ATTEMPTS"}

HaUrlValues == {Unset, "http://homeassistant.local:8123/"}
HaTokenValues == {Unset, "eyJhbGci"}
\* values of HA_MCP_RETRY_ATTEMPTS with which config.py can be imported
RetryAttemptValues == {Unset, "1", "3", "5"}

\* the values each variable takes in the model
EnvValues(name) ==
    CASE name = "HOME_ASSISTANT_MCP_URL" -> UrlValues
      [] name = "HOME_ASSISTANT_TOKEN" -> TokenValues
      [] name = "HA_URL" -> HaUrlValues
      [] name = "HA_TOKEN" -> HaTokenValues
      [] name = "HA_MCP_RETRY_ATTEMPTS" -> RetryAttemptValues

\* the process environments of the model
Environments ==
    {[n \in EnvNames \cup ConfigEnvNames |->
        CASE n = "HOME_ASSISTANT_MCP_URL" -> u
          [] n = "HOME_ASSISTANT_TOKEN" -> t
          [] n = "HA_URL" -> hu
          [] n = "HA_TOKEN" -> ht
          [] n = "HA_MCP_RETRY_ATTEMPTS" -> ra] :
        u \in UrlValues, t \in TokenValues, hu \in HaUrlValues,
        ht \in HaTokenValues, ra \in RetryAttemptValues}

\* int(s) for the decimal strings of the model
IntOf(s) ==
    CASE s = "1" -> 1
      [] s = "2" -> 2
      [] s = "3" -> 3
      [] s = "4" -> 4
      [] s = "5" -> 5

\* config.py lines 21-41: HomeAssistantConfig.from_env(); None without
\* HA_TOKEN (url and mcp_timeout are left out of the record)
HomeAssistantConfigFromEnv ==
    IF ~Truthy(Getenv("HA_TOKEN")) THEN NoneVal
    ELSE [kind |-> "HomeAssistantConfig",
          token |-> Getenv("HA_TOKEN"),
          mcp_url |-> Getenv("HOME_ASSISTANT_MCP_URL"),
          mcp_token |-> Getenv("HOME_ASSISTANT_TOKEN"),
          mcp_retry_attempts |->
              IntOf(GetenvOr("HA_MCP_RETRY_ATTEMPTS", "3"))]

\* config.py lines 90-95 and 101-117: AppConfig.from_env() inside
\* load_config(); the agent and logging sections are left out
LoadConfig == [kind |-> "AppConfig", home_assistant |-> HomeAssistantConfigFromEnv]

\* mcp.MCPServerHTTP(url=..., headers={"Authorization": f"Bearer {token}"});
\* id tells the objects of different attempts apart
MCPServerHTTP(url, token, id) ==
    [kind |-> "MCPServerHTTP", url |-> url,
     authorization |-> <<"Bearer ", token>>, id |-> id]

\* Python truthiness of Optional[MCPServerHTTP]
IsPresent(server) == server.kind # "None"

\* one entry of `calls`
Call(fn, attempt, secs, ok, obj) ==
    [fn |-> fn, attempt |-> attempt, secs |-> secs, ok |-> ok, obj |-> obj]

---------------------------------------------------------------------------
(* agent.py: create_mcp_server                                             *)

DEFAULT_MAX_RETRIES == 3
INITIAL_WAIT == 5
RECONNECT_WAIT == 3
BACKOFF_BASE == 3

\* (variant of EnvMissing that tests the URL alone)
EnvMissingUrlOnly(url, token) == ~Truthy(url)
\* line 53: if not mcp_url or not mcp_token
EnvMissing(url, token) == ~Truthy(url) \/ ~Truthy(token)

\* line 57: for attempt in range(max_retries)
InRange(attempt, max_retries) == attempt >= 0 /\ attempt < max_retries

\* lines 68-73: the wait after a construction that did not raise
PostConstructWait(attempt) ==
    IF attempt = 0 THEN INITIAL_WAIT ELSE RECONNECT_WAIT

\* line 80: if attempt < max_retries - 1
HasAttemptsLeft(attempt, max_retries) == attempt < max_retries - 1

\* (variant of BackoffDelay that does not grow)
BackoffFlat(attempt) == BACKOFF_BASE
\* line 81: wait_time = 3 * (attempt + 1)
BackoffDelay(attempt) == BACKOFF_BASE * (attempt + 1)

cmsLocals == <<cms_max_retries, cms_url, cms_token, cms_attempt, cms_server>>

\* lines 47-55 and the entry of the loop: the coroutine runs from its start to
\* its first await or return
CmsEnter(caller, max_retries) ==
    /\ cms_pc = "idle"
    /\ cms_caller' = caller
    /\ cms_max_retries' = max_retries
    /\ cms_url' = Getenv("HOME_ASSISTANT_MCP_URL")
    /\ cms_token' = Getenv("HOME_ASSISTANT_TOKEN")
    /\ cms_attempt' = 0
    /\ IF EnvMissing(cms_url', cms_token')
       THEN /\ cms_pc' = "returned"
            /\ cms_ret' = NoneVal
       ELSE /\ cms_pc' = "loop"
            /\ cms_ret' = cms_ret
    /\ UNCHANGED <<environ, calls, cms_server, cms_exc>>

\* a caller other than entrypoint: await create_mcp_server(max_retries=n)
CallDirect(n) ==
    /\ UNCHANGED <<weatherVars, adapterVars, healthVars, config>>
    /\ ep_pc = "idle"
    /\ CmsEnter("direct", n)
    /\ UNCHANGED <<ep_pc, ep_session, ep_exc>>

\* line 57 with range(max_retries) exhausted: the function falls off its end
\* and returns None
CmsLoopExit ==
    /\ UNCHANGED <<weatherVars, adapterVars, healthVars, config>>
    /\ cms_pc = "loop"
    /\ ~InRange(cms_attempt, cms_max_retries)
    /\ cms_pc' = "returned"
    /\ cms_ret' = NoneVal
    /\ UNCHANGED <<environ, calls, cms_caller, cms_exc, cmsLocals,
                   ep_pc, ep_session, ep_exc>>

\* lines 58-73: the constructor returns, the coroutine awaits asyncio.sleep
CmsAttemptOk ==
    /\ UNCHANGED <<weatherVars, adapterVars, healthVars, config>>
    /\ cms_pc = "loop"
    /\ InRange(cms_attempt, cms_max_retries)
    /\ LET server == MCPServerHTTP(cms_url, cms_token, cms_attempt)
           wait == PostConstructWait(cms_attempt)
       IN /\ cms_server' = server
          /\ calls' = calls \o
                <<Call("MCPServerHTTP", cms_attempt, 0, TRUE, server),
                  Call("sleep", cms_attempt, wait, TRUE, NoneVal)>>
    /\ cms_pc' = "sleep_created"
    /\ UNCHANGED <<environ, cms_caller, cms_max_retries, cms_url, cms_token,
                   cms_attempt, cms_ret, cms_exc, ep_pc, ep_session, ep_exc>>

\* (variant of CmsCreatedReturn without the return of line 76: the loop goes on)
CmsCreatedContinue ==
    /\ UNCHANGED <<weatherVars, adapterVars, healthVars, config>>
    /\ cms_pc = "sleep_created"
    /\ cms_pc' = "loop"
    /\ cms_attempt' = cms_attempt + 1
    /\ UNCHANGED <<environ, calls, cms_caller, cms_max_retries, cms_url,
                   cms_token, cms_server, cms_ret, cms_exc,
                   ep_pc, ep_session, ep_exc>>
\* lines 75-76: the sleep is over, return mcp_server
CmsCreatedReturn ==
    /\ UNCHANGED <<weatherVars, adapterVars, healthVars, config>>
    /\ cms_pc = "sleep_created"
    /\ cms_pc' = "returned"
    /\ cms_ret' = cms_server
    /\ UNCHANGED <<environ, calls, cms_caller, cms_exc, cmsLocals,
                   ep_pc, ep_session, ep_exc>>

\* (variant of CmsAttemptFail whose except clause lets the exception through)
CmsAttemptFailRaises ==
    /\ UNCHANGED <<weatherVars, adapterVars, healthVars, config>>
    /\ cms_pc = "loop"
    /\ InRange(cms_attempt, cms_max_retries)
    /\ IF HasAttemptsLeft(cms_attempt, cms_max_retries)
       THEN /\ calls' = calls \o
                  <<Call("MCPServerHTTP", cms_attempt, 0, FALSE, NoneVal),
                    Call("sleep", cms_attempt, BackoffDelay(cms_attempt),
                         TRUE, NoneVal)>>
            /\ cms_pc' = "sleep_backoff"
            /\ cms_exc' = cms_exc
       ELSE /\ calls' = Append(calls,
                  Call("MCPServerHTTP", cms_attempt, 0, FALSE, NoneVal))
            /\ cms_pc' = "raised"
            /\ cms_exc' = [kind |-> "Exception",
                           message |-> "MCPServerHTTP failed"]
    /\ UNCHANGED <<environ, cms_caller, cms_ret, cmsLocals,
                   ep_pc, ep_session, ep_exc>>
\* lines 62-65 raise, lines 78-86: the except clause either awaits the backoff
\* sleep or returns None
CmsAttemptFail ==
    /\ UNCHANGED <<weatherVars, adapterVars, healthVars, config>>
    /\ cms_pc = "loop"
    /\ InRange(cms_attempt, cms_max_retries)
    /\ IF HasAttemptsLeft(cms_attempt, cms_max_retries)
       THEN /\ calls' = calls \o
                  <<Call("MCPServerHTTP", cms_attempt, 0, FALSE, NoneVal),
                    Call("sleep", cms_attempt, BackoffDelay(cms_attempt),
                         TRUE, NoneVal)>>
            /\ cms_pc' = "sleep_backoff"
            /\ cms_ret' = cms_ret
       ELSE /\ calls' = Append(calls,
                  Call("MCPServerHTTP", cms_attempt, 0, FALSE, NoneVal))
            /\ cms_pc' = "returned"
            /\ cms_ret' = NoneVal
    /\ UNCHANGED <<environ, cms_caller, cms_exc, cmsLocals,
                   ep_pc, ep_session, ep_exc>>

\* line 83 is over: the next iteration of the loop
CmsBackoffOver ==
    /\ UNCHANGED <<weatherVars, adapterVars, healthVars, config>>
    /\ cms_pc = "sleep_backoff"
    /\ cms_pc' = "loop"
    /\ cms_attempt' = cms_attempt + 1
    /\ UNCHANGED <<environ, calls, cms_caller, cms_max_retries, cms_url,
                   cms_token, cms_server, cms_ret, cms_exc,
                   ep_pc, ep_session, ep_exc>>

---------------------------------------------------------------------------
(* agent.py: entrypoint                                                    *)

\* lines 126-140: SESSION_INSTRUCTION followed by the MCP guidance
OpeningInstructions ==
    [kind |-> "instructions",
     parts |-> <<"SESSION_INSTRUCTION", "# MCP Error Handling",
                 "# Tool Retry Strategy">>]

\* line 108: AgentSession(mcp_servers=[mcp_server])
AgentSession(server) == [kind |-> "AgentSession", mcp_servers |-> <<server>>]

\* lines 144-146: except Exception as e: log, raise
EpRaise(message) ==
    /\ ep_pc' = "raised"
    /\ ep_exc' = [kind |-> "Exception", message |-> message]

\* lines 88-101: Assistant() is built outside the try, then the coroutine
\* awaits create_mcp_server() with the default max_retries
EpStart(assistant_ok) ==
    /\ UNCHANGED <<weatherVars, adapterVars, healthVars, config>>
    /\ ep_pc = "idle"
    /\ cms_pc = "idle"
    /\ IF assistant_ok
       THEN /\ CmsEnter("entrypoint", DEFAULT_MAX_RETRIES)
            /\ ep_pc' = "await_mcp"
            /\ UNCHANGED <<ep_session, ep_exc>>
       ELSE /\ EpRaise("Assistant() failed")
            /\ UNCHANGED <<environ, calls, cms_pc, cms_caller, cms_ret,
                           cms_exc, cmsLocals, ep_session>>

\* (variant of EpResume without the check of lines 103-105)
EpResumeUnchecked(setup_ok) ==
    /\ UNCHANGED <<weatherVars, adapterVars, healthVars, config>>
    /\ ep_pc = "await_mcp"
    /\ cms_caller = "entrypoint"
    /\ cms_pc = "returned"
    /\ ep_session' = AgentSession(cms_ret)
    /\ calls' = Append(calls, Call("session.start", 0, 0, TRUE, cms_ret))
    /\ ep_pc' = "session.start"
    /\ UNCHANGED <<environ, cms_pc, cms_caller, cms_ret, cms_exc, cmsLocals,
                   ep_exc>>
\* lines 101-121: create_mcp_server has returned; without a server the
\* function raises, otherwise it builds the session and awaits session.start
EpResume(setup_ok) ==
    /\ UNCHANGED <<weatherVars, adapterVars, healthVars, config>>
    /\ ep_pc = "await_mcp"
    /\ cms_caller = "entrypoint"
    /\ cms_pc = "returned"
    /\ IF ~IsPresent(cms_ret)
       THEN /\ EpRaise("MCP server connection failed")
            /\ UNCHANGED <<calls, ep_session>>
       ELSE IF ~setup_ok
       THEN \* AgentSession, noise_cancellation.BVC or RoomInputOptions raises
            /\ EpRaise("session setup failed")
            /\ UNCHANGED <<calls, ep_session>>
       ELSE /\ ep_session' = AgentSession(cms_ret)
            /\ calls' = Append(calls,
                               Call("session.start", 0, 0, TRUE, cms_ret))
            /\ ep_pc' = "session.start"
            /\ UNCHANGED ep_exc
    /\ UNCHANGED <<environ, cms_pc, cms_caller, cms_ret, cms_exc, cmsLocals>>

\* (variant of EpSessionStarted that issues the opening turn without ctx.connect)
EpSessionStartedNoConnect(ok) ==
    /\ UNCHANGED <<weatherVars, adapterVars, healthVars, config>>
    /\ ep_pc = "session.start"
    /\ IF ok
       THEN /\ calls' = Append(calls, Call("session.generate_reply", 0, 0, TRUE,
                                           OpeningInstructions))
            /\ ep_pc' = "session.generate_reply"
            /\ UNCHANGED ep_exc
       ELSE /\ EpRaise("session.start failed")
            /\ UNCHANGED calls
    /\ UNCHANGED <<environ, cms_pc, cms_caller, cms_ret, cms_exc, cmsLocals,
                   ep_session>>
\* lines 117-123: session.start is over (or raised); await ctx.connect()
EpSessionStarted(ok) ==
    /\ UNCHANGED <<weatherVars, adapterVars, healthVars, config>>
    /\ ep_pc = "session.start"
    /\ IF ok
       THEN /\ calls' = Append(calls, Call("ctx.connect", 0, 0, TRUE, NoneVal))
            /\ ep_pc' = "ctx.connect"
            /\ UNCHANGED ep_exc
       ELSE /\ EpRaise("session.start failed")
            /\ UNCHANGED calls
    /\ UNCHANGED <<environ, cms_pc, cms_caller, cms_ret, cms_exc, cmsLocals,
                   ep_session>>

\* lines 123-142: ctx.connect is over (or raised); await session.generate_reply
EpConnected(ok) ==
    /\ UNCHANGED <<weatherVars, adapterVars, healthVars, config>>
    /\ ep_pc = "ctx.connect"
    /\ IF ok
       THEN /\ calls' = Append(calls, Call("session.generate_reply", 0, 0, TRUE,
                                           OpeningInstructions))
            /\ ep_pc' = "session.generate_reply"
            /\ UNCHANGED ep_exc
       ELSE /\ EpRaise("ctx.connect failed")
            /\ UNCHANGED calls
    /\ UNCHANGED <<environ, cms_pc, cms_caller, cms_ret, cms_exc, cmsLocals,
                   ep_session>>

\* lines 142-146: generate_reply is over (or raised); the function returns
EpReplied(ok) ==
    /\ UNCHANGED <<weatherVars, adapterVars, healthVars, config>>
    /\ ep_pc = "session.generate_reply"
    /\ IF ok
       THEN /\ ep_pc' = "done"
            /\ UNCHANGED ep_exc
       ELSE EpRaise("session.generate_reply failed")
    /\ UNCHANGED <<environ, calls, cms_pc, cms_caller, cms_ret, cms_exc,
                   cmsLocals, ep_session>>

---------------------------------------------------------------------------
(* The connector and the orchestrator as one system.                       *)

ConnInit ==
    /\ environ \in Environments
    /\ calls = <<>>
    /\ cms_pc = "idle"
    /\ cms_caller = "nobody"
    /\ cms_max_retries = DEFAULT_MAX_RETRIES
    /\ cms_url = Unset
    /\ cms_token = Unset
    /\ cms_attempt = 0
    /\ cms_server = NoneVal
    /\ cms_ret = NoneVal
    /\ cms_exc = NoException
    /\ ep_pc = "idle"
    /\ ep_session = NoneVal
    /\ ep_exc = NoException

ConnNext ==
    \/ \E n \in 0..MaxRetriesBound : CallDirect(n)
    \/ \E ok \in BOOLEAN : EpStart(ok)
    \/ CmsLoopExit
    \/ CmsAttemptOk
    \/ CmsCreatedReturn
    \/ CmsAttemptFail
    \/ CmsBackoffOver
    \/ \E ok \in BOOLEAN : EpResume(ok)
    \/ \E ok \in BOOLEAN : EpSessionStarted(ok)
    \/ \E ok \in BOOLEAN : EpConnected(ok)
    \/ \E ok \in BOOLEAN : EpReplied(ok)

---------------------------------------------------------------------------
(* tools.py: geocode and get_weather                                       *)
(*                                                                         *)
(* geocode is a coroutine function under functools.lru_cache: a call of    *)
(* geocode(address) runs none of its body, it returns a coroutine object,  *)
(* and that object is what the cache stores under the address.  Awaiting a *)
(* coroutine object that another task is awaiting, or that has already run *)
(* to its end, raises RuntimeError.                                        *)

\* the get_weather calls of the model are numbered 1..MaxCalls
MaxCalls == 3

LRU_MAXSIZE == 100

Tasks == 1..MaxCalls

Cities == {"London", "Paris"}

\* lines 22-24: GeoLocation(lat=float(data["lat"]), lon=float(data["lon"]));
\* coordinates are in units of 0.0001 degree
GeoLocation(lat, lon) == [kind |-> "GeoLocation", lat |-> lat, lon |-> lon]

\* the first match Nominatim holds for an address
Nominatim(address) ==
    IF address = "London" THEN [lat |-> 515074, lon |-> -1278]
    ELSE [lat |-> 488566, lon |-> 23522]

\* what the request of line 68 and the parsing of lines 69-74 can come to
GeocodeOutcomes == {"match", "no_match", "timeout", "http_error", "bad_payload"}

\* what the request of line 107 and the parsing of lines 108-110 can come to
ForecastOutcomes == {"ok", "timeout", "http_error", "bad_payload"}

\* lines 33-58
WEATHER_CODES ==
    [c \in {0, 1, 2, 3, 45, 48, 51, 53, 55, 61, 63, 65, 71, 73, 75, 77,
            80, 81, 82, 85, 86, 95, 96, 99} |->
        CASE c = 0 -> "Clear sky"
          [] c = 1 -> "Mainly clear"
          [] c = 2 -> "Partly cloudy"
          [] c = 3 -> "Overcast"
          [] c = 45 -> "Foggy"
          [] c = 48 -> "Depositing rime fog"
          [] c = 51 -> "Light drizzle"
          [] c = 53 -> "Moderate drizzle"
          [] c = 55 -> "Dense drizzle"
          [] c = 61 -> "Slight rain"
          [] c = 63 -> "Moderate rain"
          [] c = 65 -> "Heavy rain"
          [] c = 71 -> "Slight snow"
          [] c = 73 -> "Moderate snow"
          [] c = 75 -> "Heavy snow"
          [] c = 77 -> "Snow grains"
          [] c = 80 -> "Slight rain showers"
          [] c = 81 -> "Moderate rain showers"
          [] c = 82 -> "Violent rain showers"
          [] c = 85 -> "Slight snow showers"
          [] c = 86 -> "Heavy snow showers"
          [] c = 95 -> "Thunderstorm"
          [] c = 96 -> "Thunderstorm with slight hail"
          [] OTHER -> "Thunderstorm with heavy hail"]

\* the weather codes Open-Meteo answers with in the model: a known and an
\* unknown one
ForecastCodes == {3, 42}

\* lines 26-30: CurrentWeather
CurrentWeather(code) ==
    [temperature |-> 15, windspeed |-> 5, winddirection |-> 180,
     weathercode |-> code]

\* line 113: WEATHER_CODES.get(cw.weathercode, f"Unknown (code: {...})")
WeatherDesc(code) ==
    IF code \in DOMAIN WEATHER_CODES
    THEN <<WEATHER_CODES[code]>>
    ELSE <<"Unknown (code: ", code, ")">>

\* the strings get_weather returns, as the pieces of their f-strings
\* (lines 115-118; "deg" stands for the degree sign)
WeatherReport(city, cw) ==
    <<"Weather in ", city, ": ">> \o WeatherDesc(cw.weathercode) \o
    <<", ", cw.temperature, "degC, wind ", cw.windspeed, " m/s at ",
      cw.winddirection, "deg">>
\* line 96
LocationNotFound(city) ==
    <<"Could not find location: ", city,
      ". Please check the spelling or try a different city name.">>
\* line 120
WeatherTimeout(city) ==
    <<"Weather service timeout for ", city, ". Please try again.">>
\* line 123
WeatherHttpError(city) ==
    <<"Weather service error for ", city, ". Please try again later.">>
\* line 126
WeatherUnavailable(city) ==
    <<"Could not retrieve weather for ", city, ". Please try again.">>

\* a get_weather call that has not been made
IdleTask ==
    [pc |-> "idle", city |-> "", cache |-> "none", coro |-> 0,
     loc |-> NoneVal, exc |-> NoException, ret |-> <<>>]

\* functools.lru_cache: the keys held, the value under a key
CacheKeys == {geocode_cache[i].key : i \in 1..Len(geocode_cache)}
CacheValue(address) ==
    LET i == CHOOSE i \in 1..Len(geocode_cache) : geocode_cache[i].key = address
    IN geocode_cache[i].value

\* (variant of LruTouch that leaves a hit entry where it is)
LruTouchNoMove(cache, address) == cache
\* functools.lru_cache, a hit: the entry becomes the most recently used
LruTouch(cache, address) ==
    SelectSeq(cache, LAMBDA e : e.key # address) \o
    SelectSeq(cache, LAMBDA e : e.key = address)

\* functools.lru_cache, a miss: the new entry replaces the least recently used
\* one when the cache is full (line 60, maxsize=100)
LruInsert(cache, entry) ==
    IF Len(cache) >= LRU_MAXSIZE
    THEN Append(Tail(cache), entry)
    ELSE Append(cache, entry)

\* the exception of `await coro` for a coroutine object in a given state
AwaitError(state) ==
    [kind |-> "RuntimeError",
     message |-> IF state = "running"
                 THEN "coroutine is being awaited already"
                 ELSE "cannot reuse already awaited coroutine"]

NominatimRequest(address) ==
    [host |-> "nominatim.openstreetmap.org", q |-> address, lat |-> 0, lon |-> 0]
OpenMeteoRequest(loc) ==
    [host |-> "api.open-meteo.com", q |-> "", lat |-> loc.lat, lon |-> loc.lon]

\* lines 93-94 up to the first suspension: geocode(city) goes through the
\* lru_cache, then the coroutine object it returned is awaited. A fresh
\* coroutine runs to the request of line 68; one that is running or finished
\* raises RuntimeError, which line 124 catches.
GetWeatherCall(t, city) ==
    /\ UNCHANGED <<connVars, adapterVars, healthVars, config>>
    /\ weather_task[t].pc = "idle"
    /\ geocode_calls' = Append(geocode_calls, city)
    /\ LET hit == city \in CacheKeys
           c == IF hit THEN CacheValue(city) ELSE Len(geocode_coros) + 1
           coros == IF hit THEN geocode_coros
                    ELSE Append(geocode_coros,
                                [address |-> city, state |-> "created",
                                 result |-> NoneVal, caught |-> NoException])
           started == [IdleTask EXCEPT !.city = city, !.coro = c,
                          !.cache = IF hit THEN "hit" ELSE "miss"]
       IN /\ geocode_cache' =
                 IF hit THEN LruTouch(geocode_cache, city)
                 ELSE LruInsert(geocode_cache, [key |-> city, value |-> c])
          /\ IF coros[c].state = "created"
             THEN /\ geocode_coros' = [coros EXCEPT ![c].state = "running"]
                  /\ http_requests' =
                         Append(http_requests, NominatimRequest(coros[c].address))
                  /\ weather_task' =
                         [weather_task EXCEPT ![t] =
                             [started EXCEPT !.pc = "geocode"]]
             ELSE /\ geocode_coros' = coros
                  /\ http_requests' = http_requests
                  /\ weather_task' =
                         [weather_task EXCEPT ![t] =
                             [started EXCEPT
                                 !.pc = "done",
                                 !.exc = AwaitError(coros[c].state),
                                 !.ret = WeatherUnavailable(city)]]

\* the value geocode returns for an outcome of its request (lines 66-77: every
\* exception is caught inside geocode and turned into None)
GeocodeResult(address, outcome) ==
    IF outcome = "match"
    THEN GeoLocation(Nominatim(address).lat, Nominatim(address).lon)
    ELSE NoneVal

\* lines 75-77: the exception geocode catches (and logs) for an outcome of its
\* request
GeocodeCaught(outcome) ==
    CASE outcome = "timeout" -> [kind |-> "TimeoutException"]
      [] outcome = "http_error" -> [kind |-> "HTTPStatusError"]
      [] outcome = "bad_payload" -> [kind |-> "Exception"]
      [] OTHER -> NoException

\* lines 68-77 and 94-107: the geocoding request is over, the coroutine
\* returns, get_weather goes on to the forecast request or returns line 96
GeocodeDone(t, outcome) ==
    /\ UNCHANGED <<connVars, adapterVars, healthVars, config>>
    /\ weather_task[t].pc = "geocode"
    /\ LET c == weather_task[t].coro
           city == weather_task[t].city
           loc == GeocodeResult(geocode_coros[c].address, outcome)
       IN /\ geocode_coros' =
                 [geocode_coros EXCEPT ![c].state = "finished",
                                       ![c].result = loc,
                                       ![c].caught = GeocodeCaught(outcome)]
          /\ IF ~IsPresent(loc)
             THEN /\ weather_task' =
                         [weather_task EXCEPT ![t].pc = "done", ![t].loc = loc,
                                              ![t].ret = LocationNotFound(city)]
                  /\ http_requests' = http_requests
             ELSE /\ weather_task' =
                         [weather_task EXCEPT ![t].pc = "forecast",
                                              ![t].loc = loc]
                  /\ http_requests' =
                         Append(http_requests, OpenMeteoRequest(loc))
    /\ UNCHANGED <<geocode_cache, geocode_calls>>

\* lines 107-126: the forecast request is over
ForecastDone(t, outcome, code) ==
    /\ UNCHANGED <<connVars, adapterVars, healthVars, config>>
    /\ weather_task[t].pc = "forecast"
    /\ LET city == weather_task[t].city
       IN weather_task' =
            [weather_task EXCEPT
                ![t].pc = "done",
                ![t].exc =
                    CASE outcome = "ok" -> NoException
                      [] outcome = "timeout" -> [kind |-> "TimeoutException"]
                      [] outcome = "http_error" -> [kind |-> "HTTPStatusError"]
                      [] OTHER -> [kind |-> "Exception"],
                ![t].ret =
                    CASE outcome = "ok" ->
                            WeatherReport(city, CurrentWeather(code))
                      [] outcome = "timeout" -> WeatherTimeout(city)
                      [] outcome = "http_error" -> WeatherHttpError(city)
                      [] OTHER -> WeatherUnavailable(city)]
    /\ UNCHANGED <<geocode_cache, geocode_coros, http_requests, geocode_calls>>

\* no get_weather call is between its start and its return
NoCallInFlight ==
    \A t \in Tasks : weather_task[t].pc \in {"idle", "done"}

\* a caller that starts a get_weather call only when the one before is over
GetWeatherCallInTurn(t, city) ==
    /\ NoCallInFlight
    /\ GetWeatherCall(t, city)

WeatherInit ==
    /\ geocode_cache = <<>>
    /\ geocode_coros = <<>>
    /\ weather_task = [t \in Tasks |-> IdleTask]
    /\ http_requests = <<>>
    /\ geocode_calls = <<>>

WeatherNext ==
    \/ \E t \in Tasks, city \in Cities : GetWeatherCall(t, city)
    \/ \E t \in Tasks, o \in GeocodeOutcomes : GeocodeDone(t, o)
    \/ \E t \in Tasks, o \in ForecastOutcomes, code \in ForecastCodes :
          ForecastDone(t, o, code)

WeatherInTurnNext ==
    \/ \E t \in Tasks, city \in Cities : GetWeatherCallInTurn(t, city)
    \/ \E t \in Tasks, o \in GeocodeOutcomes : GeocodeDone(t, o)
    \/ \E t \in Tasks, o \in ForecastOutcomes, code \in ForecastCodes :
          ForecastDone(t, o, code)

\* the process has answered CachePrefill get_weather calls before the calls
\* of the model
CachePrefill == 99

\* the address of the i-th of these calls
PrefillAddress(i) == ToString(i) \o " Main Street"

\* the addresses of the calls that follow: one that was asked before, and
\* two that differ in case only
CacheAddresses == {PrefillAddress(1), "London", "london"}

\* the state after the earlier calls: each was a miss, its request found no
\* match, and geocode returned None (lines 70-71)
CachePrefilledInit ==
    /\ geocode_calls = [i \in 1..CachePrefill |-> PrefillAddress(i)]
    /\ geocode_coros =
           [i \in 1..CachePrefill |->
               [address |-> PrefillAddress(i), state |-> "finished",
                result |-> NoneVal, caught |-> NoException]]
    /\ geocode_cache =
           LET all == [i \in 1..CachePrefill |->
                          [key |-> PrefillAddress(i), value |-> i]]
           IN IF CachePrefill <= LRU_MAXSIZE THEN all
              ELSE SubSeq(all, CachePrefill - LRU_MAXSIZE + 1, CachePrefill)
    /\ http_requests =
           [i \in 1..CachePrefill |-> NominatimRequest(PrefillAddress(i))]
    /\ weather_task = [t \in Tasks |-> IdleTask]

\* the cache does not depend on how the requests end: one outcome of each
\* kind is followed
CacheNext ==
    \/ \E t \in Tasks, city \in CacheAddresses : GetWeatherCallInTurn(t, city)
    \/ \E t \in Tasks, o \in {"match", "no_match"} : GeocodeDone(t, o)
    \/ \E t \in Tasks : ForecastDone(t, "ok", 3)

---------------------------------------------------------------------------
(* tools.py: search_web, get_time_smart, get_system_status                 *)

\* the search engine answers with up to MaxPad whitespace characters before
\* and after its text
MaxPad == 2

\* how far beyond the truncation limit the longest answer goes
ExtraLen == 500

MIN_RESULT_LEN == 10
MAX_RESULT_LEN == 1000

\* Python's None where a str is expected
NoneStr == Unset

\* a Python str, as the sequence of its characters
Str(chars) == [kind |-> "str", chars |-> chars]

\* an f-string, as the sequence of its pieces
FStr(parts) == [kind |-> "fstr", parts |-> parts]

\* str.strip() strips these (among others)
Whitespace == {" ", "\t", "\n"}

\* the number of whitespace characters chars starts with
LeadingWs(chars) ==
    Cardinality({i \in 1..Len(chars) :
                    \A j \in 1..i : chars[j] \in Whitespace})

\* the number of whitespace characters chars ends with
TrailingWs(chars) ==
    Cardinality({i \in 1..Len(chars) :
                    \A j \in 1..i : chars[Len(chars) + 1 - j] \in Whitespace})

\* str.strip()
Strip(chars) ==
    LET lead == LeadingWs(chars)
    IN IF lead = Len(chars) THEN <<>>
       ELSE SubSeq(chars, lead + 1, Len(chars) - TrailingWs(chars))

\* the text of a search result: `core` characters that begin and end with a
\* letter and hold digits and blanks in between
CoreText(core) ==
    [i \in 1..core |->
        IF i = 1 \/ i = core THEN "x"
        ELSE IF i % 7 = 0 THEN " "
        ELSE <<"0", "1", "2", "3", "4", "5", "6", "7", "8", "9">>[(i % 10) + 1]]

Padding(n) == [i \in 1..n |-> IF i % 2 = 1 THEN " " ELSE "\n"]

\* what DuckDuckGoSearchRun.run answers: `lead` whitespace characters, the
\* text, `trail` whitespace characters
SearchText(lead, core, trail) ==
    Str(Padding(lead) \o CoreText(core) \o Padding(trail))

PadLens == (0..MaxPad) \cup {MAX_RESULT_LEN}
CoreLens ==
    {0, 5} \cup ((MIN_RESULT_LEN - 1)..(MIN_RESULT_LEN + 1))
           \cup ((MAX_RESULT_LEN - 2)..(MAX_RESULT_LEN + 1))
           \cup {MAX_RESULT_LEN + ExtraLen}

\* the answers of the search engine in the model
SearchBackends ==
    {[outcome |-> "text", lead |-> l, core |-> c, trail |-> t] :
        l \in PadLens, c \in CoreLens, t \in 0..MaxPad}
    \cup {[outcome |-> "none", lead |-> 0, core |-> 0, trail |-> 0],
          [outcome |-> "raises", lead |-> 0, core |-> 0, trail |-> 0],
          [outcome |-> "constructor_raises", lead |-> 0, core |-> 0,
           trail |-> 0],
          [outcome |-> "not_installed", lead |-> 0, core |-> 0, trail |-> 0]}

Queries == {"weather tomorrow", "x"}

\* line 205
NoRelevantResults(query) ==
    FStr(<<"No relevant results found for '", query,
           "'. Please try a different search term.">>)
\* line 216
SearchError(query) ==
    FStr(<<"Search error for '", query,
           "'. Please try again or rephrase your query.">>)

\* (variant of ResultTooShort that measures the result without strip())
ResultTooShortUnstripped(results) ==
    \/ results.kind = "None"
    \/ results.chars = <<>>
    \/ Len(results.chars) < MIN_RESULT_LEN
\* line 204: not results or len(results.strip()) < 10
ResultTooShort(results) ==
    \/ results.kind = "None"
    \/ results.chars = <<>>
    \/ Len(Strip(results.chars)) < MIN_RESULT_LEN

\* lines 208-209: results[:1000] + "..."
Truncated(results) ==
    IF Len(results.chars) > MAX_RESULT_LEN
    THEN Str(SubSeq(results.chars, 1, MAX_RESULT_LEN) \o <<".", ".", ".">>)
    ELSE results

\* lines 191-202: the import of line 191 is outside the try of line 193, so an
\* ImportError leaves the function; an exception of the constructor is caught
\* by line 214; otherwise the coroutine awaits run_in_executor
SearchWebCall(query, backend) ==
    /\ UNCHANGED <<connVars, weatherVars, healthVars, config>>
    /\ tool_pc = "idle"
    /\ tool_call' = [fn |-> "search_web", arg |-> query]
    /\ tool_backend' = backend
    /\ tool_local' = tool_local
    /\ IF backend.outcome = "not_installed"
       THEN /\ tool_pc' = "raised"
            /\ tool_exc' = [kind |-> "ImportError"]
            /\ tool_ret' = tool_ret
       ELSE IF backend.outcome = "constructor_raises"
       THEN /\ tool_pc' = "done"
            /\ tool_exc' = tool_exc
            /\ tool_ret' = SearchError(query)
       ELSE /\ tool_pc' = "run_in_executor"
            /\ tool_exc' = tool_exc
            /\ tool_ret' = tool_ret

\* lines 199-216: the search is over (or raised)
SearchWebDone ==
    /\ UNCHANGED <<connVars, weatherVars, healthVars, config>>
    /\ tool_pc = "run_in_executor"
    /\ tool_call.fn = "search_web"
    /\ tool_pc' = "done"
    /\ IF tool_backend.outcome = "raises"
       THEN /\ tool_ret' = SearchError(tool_call.arg)
            /\ tool_local' = tool_local
       ELSE LET results ==
                    IF tool_backend.outcome = "none" THEN NoneVal
                    ELSE SearchText(tool_backend.lead, tool_backend.core,
                                    tool_backend.trail)
            IN IF ResultTooShort(results)
               THEN /\ tool_ret' = NoRelevantResults(tool_call.arg)
                    /\ tool_local' = results
               ELSE /\ tool_ret' = Truncated(results)
                    /\ tool_local' = Truncated(results)
    /\ UNCHANGED <<tool_call, tool_backend, tool_exc>>

\* the zone names ZoneInfo accepts in the model
ValidZones == {"Europe/London", "America/New_York"}

Locations == {NoneStr, "", "Europe/London", "Not/AZone"}

\* the clock and zone database answer, logger.info returns or raises
TimeBackends ==
    {[clock_ok |-> c, log_ok |-> l] : c \in BOOLEAN, l \in BOOLEAN}

\* lines 143-175: get_time_smart has no await, it runs in one step
GetTimeSmart(location, backend) ==
    /\ UNCHANGED <<connVars, weatherVars, healthVars, config>>
    /\ tool_pc = "idle"
    /\ tool_call' = [fn |-> "get_time_smart", arg |-> location]
    /\ tool_backend' = backend
    /\ tool_pc' = "done"
    /\ tool_ret' =
         IF location = NoneStr
         THEN IF backend.clock_ok /\ backend.log_ok
              THEN FStr(<<"Current local time: ", "%Y-%m-%d %H:%M:%S", " ",
                          "tzname">>)
              ELSE FStr(<<"Could not retrieve current local time.">>)
         ELSE IF ~(location \in ValidZones /\ backend.clock_ok)
         THEN FStr(<<"Invalid timezone: ", location,
                     ". Please use IANA format like 'America/New_York' or 'Europe/London'.">>)
         ELSE IF backend.log_ok
         THEN FStr(<<"Current time in ", location, ": ",
                     "%Y-%m-%d %H:%M:%S %Z">>)
         ELSE IF location # ""
         THEN FStr(<<"Could not retrieve time for ", location,
                     ". Please use IANA timezone format.">>)
         ELSE FStr(<<"Could not retrieve current local time.">>)
    /\ UNCHANGED <<tool_local, tool_exc>>

\* psutil can be imported or not, its queries return or raise
StatusBackends ==
    {[installed |-> i, metrics_ok |-> m] : i \in BOOLEAN, m \in BOOLEAN}

\* lines 228-248: get_system_status has no await, it runs in one step
GetSystemStatus(backend) ==
    /\ UNCHANGED <<connVars, weatherVars, healthVars, config>>
    /\ tool_pc = "idle"
    /\ tool_call' = [fn |-> "get_system_status", arg |-> ""]
    /\ tool_backend' = backend
    /\ tool_pc' = "done"
    /\ tool_ret' =
         IF ~backend.installed
         THEN FStr(<<"System status unavailable (psutil not installed)">>)
         ELSE IF ~backend.metrics_ok
         THEN FStr(<<"System status unavailable">>)
         ELSE FStr(<<"System Status: CPU ", "cpu_percent", "%, Memory ",
                     "memory.percent", "% used, Disk ", "disk.percent",
                     "% used">>)
    /\ UNCHANGED <<tool_local, tool_exc>>

AdapterNext ==
    \/ \E q \in Queries, b \in SearchBackends : SearchWebCall(q, b)
    \/ SearchWebDone
    \/ \E l \in Locations, b \in TimeBackends : GetTimeSmart(l, b)
    \/ \E b \in StatusBackends : GetSystemStatus(b)

---------------------------------------------------------------------------
(* health_check.py                                                         *)

\* the bridge's stream holds up to MaxLines lines
MaxLines == 4

HTTP_OK == 200
LINES_TO_READ == 3

\* a check's result: the dict with "status", "message" and "details"
CheckResult(status, message, details) ==
    [kind |-> "result", status |-> status, message |-> message,
     details |-> details]

\* lines 25-29: HealthChecker(), its fields as os.getenv gives them
HealthChecker ==
    [mcp_url |-> Getenv("HOME_ASSISTANT_MCP_URL"),
     mcp_token |-> Getenv("HOME_ASSISTANT_TOKEN"),
     ha_url |-> Getenv("HA_URL"),
     ha_token |-> Getenv("HA_TOKEN")]

\* the lines of the bridge's event stream, as sequences of characters
LineValues == {<<>>, <<" ">>, <<"d", "a", "t", "a", ":">>}

Streams == UNION {[1..n -> LineValues] : n \in 0..MaxLines}

\* how the stream goes on after its lines: the bridge closes it, no line
\* arrives within the timeout, or the connection breaks
StreamEndings == {"closed", "timeout", "error"}

\* what the GET of line 47 comes to: a response (its status, and the stream
\* that aiter_lines will deliver), httpx.TimeoutException, or another exception
BridgeReplies ==
    {[kind |-> "response", status |-> HTTP_OK, lines |-> ls, ending |-> en] :
        ls \in Streams, en \in StreamEndings}
    \cup {[kind |-> "response", status |-> st, lines |-> <<>>,
           ending |-> "closed"] : st \in {401, 503}}
    \cup {[kind |-> k, status |-> 0, lines |-> <<>>, ending |-> "closed"] :
           k \in {"timeout", "error"}}

\* what the GET of line 107 and the parsing of lines 116-117 come to
RestOutcomes == {"ok", "bad_payload", "unauthorized", "error"}

\* lines 141-161: check_environment
CheckEnvironment(self) ==
    LET missing ==
            (IF ~Truthy(self.mcp_url) THEN <<"HOME_ASSISTANT_MCP_URL">>
             ELSE <<>>) \o
            (IF ~Truthy(self.mcp_token) THEN <<"HOME_ASSISTANT_TOKEN">>
             ELSE <<>>)
    IN IF missing # <<>>
       THEN CheckResult("error",
                <<"Missing required environment variables: ", missing>>,
                missing)
       ELSE CheckResult("success",
                <<"All required environment variables are set">>,
                <<"HOME_ASSISTANT_MCP_URL", "HOME_ASSISTANT_TOKEN">>)

\* lines 33-41
McpNotConfigured ==
    CheckResult("error", <<"MCP environment variables not configured">>, <<>>)
\* lines 53-57
McpBadStatus(status) ==
    CheckResult("error", <<"MCP server returned status ", status>>,
                <<status>>)
\* lines 68-75
McpSuccess(url, lines_read) ==
    CheckResult("success", <<"MCP connection successful">>,
                <<url, lines_read>>)
\* lines 77-82
McpTimeout ==
    CheckResult("error", <<"MCP connection timeout">>, <<"30 seconds">>)
\* lines 83-88
McpFailed ==
    CheckResult("error", <<"MCP connection failed: ", "str(e)">>, <<"str(e)">>)

\* lines 92-100
RestNotConfigured ==
    CheckResult("warning",
                <<"REST API environment variables not configured">>, <<>>)

\* lines 115-139: the result of check_ha_rest_api for an outcome of its request
RestResult(outcome) ==
    CASE outcome = "ok" ->
            CheckResult("success", <<"REST API connection successful">>, <<>>)
      [] outcome = "unauthorized" ->
            CheckResult("error", <<"REST API returned status ", 401>>, <<401>>)
      [] OTHER ->
            CheckResult("error", <<"REST API connection failed: ", "str(e)">>,
                        <<"str(e)">>)

\* lines 182-185: the checks with status "error" and check.get("critical",
\* True); no check result has a "critical" key
CriticalErrors(checks) ==
    {name \in DOMAIN checks :
        checks[name].kind = "result" /\ checks[name].status = "error"}

\* lines 187-192
OverallStatus(checks) ==
    IF CriticalErrors(checks) # {} THEN "error" ELSE "success"

\* lines 176-179: the result of check_mcp_connection is stored and
\* check_ha_rest_api starts: it returns at once or awaits its GET
HcAfterMcp(result) ==
    /\ IF ~Truthy(hc_self.ha_url) \/ ~Truthy(hc_self.ha_token)
       THEN /\ hc_checks' = [hc_checks EXCEPT !.mcp_connection = result,
                                              !.rest_api = RestNotConfigured]
            /\ hc_pc' = "report"
       ELSE /\ hc_checks' = [hc_checks EXCEPT !.mcp_connection = result]
            /\ hc_pc' = "rest_get"

\* lines 217-222, 163-176 and 31-50: main builds the checker and awaits
\* run_health_check, which checks the environment and starts the probe
HcStart ==
    /\ UNCHANGED <<connVars, weatherVars, adapterVars, config>>
    /\ hc_pc = "idle"
    /\ hc_self' = HealthChecker
    /\ LET self == HealthChecker
           env == CheckEnvironment(self)
           started == [hc_checks EXCEPT !.environment = env]
       IN IF ~Truthy(self.mcp_url) \/ ~Truthy(self.mcp_token)
          THEN IF ~Truthy(self.ha_url) \/ ~Truthy(self.ha_token)
               THEN /\ hc_checks' =
                          [started EXCEPT !.mcp_connection = McpNotConfigured,
                                          !.rest_api = RestNotConfigured]
                    /\ hc_pc' = "report"
               ELSE /\ hc_checks' =
                          [started EXCEPT !.mcp_connection = McpNotConfigured]
                    /\ hc_pc' = "rest_get"
          ELSE /\ hc_checks' = started
               /\ hc_pc' = "mcp_get"
    /\ UNCHANGED <<hc_reply, hc_lines_read, hc_pos, hc_exc, hc_exit>>

\* (variant of HcMcpReply without the status test of line 52)
HcMcpReplyAnyStatus(reply) ==
    /\ UNCHANGED <<connVars, weatherVars, adapterVars, config>>
    /\ hc_pc = "mcp_get"
    /\ hc_reply' = reply
    /\ IF reply.kind = "timeout" THEN HcAfterMcp(McpTimeout)
       ELSE IF reply.kind = "error" THEN HcAfterMcp(McpFailed)
       ELSE /\ hc_pc' = "mcp_lines"
            /\ hc_checks' = hc_checks
    /\ UNCHANGED <<hc_self, hc_lines_read, hc_pos, hc_exc, hc_exit>>
\* lines 47-60 and 77-88: the GET is over
HcMcpReply(reply) ==
    /\ UNCHANGED <<connVars, weatherVars, adapterVars, config>>
    /\ hc_pc = "mcp_get"
    /\ hc_reply' = reply
    /\ IF reply.kind = "timeout" THEN HcAfterMcp(McpTimeout)
       ELSE IF reply.kind = "error" THEN HcAfterMcp(McpFailed)
       ELSE IF reply.status # HTTP_OK THEN HcAfterMcp(McpBadStatus(reply.status))
       ELSE /\ hc_pc' = "mcp_lines"
            /\ hc_checks' = hc_checks
    /\ UNCHANGED <<hc_self, hc_lines_read, hc_pos, hc_exc, hc_exit>>

\* lines 61-66: one turn of the loop over response.aiter_lines()
HcReadLine ==
    /\ UNCHANGED <<connVars, weatherVars, adapterVars, config>>
    /\ hc_pc = "mcp_lines"
    /\ hc_pos < Len(hc_reply.lines)
    /\ hc_pos' = hc_pos + 1
    /\ LET line == hc_reply.lines[hc_pos + 1]
           n == IF Strip(line) # <<>> THEN hc_lines_read + 1
                ELSE hc_lines_read
       IN /\ hc_lines_read' = n
          /\ IF Strip(line) # <<>> /\ n >= LINES_TO_READ
             THEN HcAfterMcp(McpSuccess(hc_self.mcp_url, n))
             ELSE /\ hc_pc' = "mcp_lines"
                  /\ hc_checks' = hc_checks
    /\ UNCHANGED <<hc_self, hc_reply, hc_exc, hc_exit>>

\* lines 61 and 68-88: the stream delivers no more lines; the loop ends, or
\* aiter_lines raises and one of the except clauses returns
HcStreamEnd ==
    /\ UNCHANGED <<connVars, weatherVars, adapterVars, config>>
    /\ hc_pc = "mcp_lines"
    /\ hc_pos = Len(hc_reply.lines)
    /\ HcAfterMcp(CASE hc_reply.ending = "timeout" -> McpTimeout
                    [] hc_reply.ending = "error" -> McpFailed
                    [] OTHER -> McpSuccess(hc_self.mcp_url, hc_lines_read))
    /\ UNCHANGED <<hc_self, hc_reply, hc_lines_read, hc_pos, hc_exc, hc_exit>>

\* lines 107-139 and 179: the GET of the REST check is over
HcRestReply(outcome) ==
    /\ UNCHANGED <<connVars, weatherVars, adapterVars, config>>
    /\ hc_pc = "rest_get"
    /\ hc_checks' = [hc_checks EXCEPT !.rest_api = RestResult(outcome)]
    /\ hc_pc' = "report"
    /\ UNCHANGED <<hc_self, hc_reply, hc_lines_read, hc_pos, hc_exc, hc_exit>>

\* (variant of ExitCode that always reports success)
ExitCodeZero(overall, printed) == 0
\* lines 223-234: sys.exit(1) for overall status "error" and for an exception
\* of print_results, sys.exit(0) otherwise
ExitCode(overall, printed) ==
    IF ~printed THEN 1
    ELSE IF overall = "error" THEN 1
    ELSE 0

\* lines 181-194 and 222-234: run_health_check returns the overall status,
\* main prints the results (print_results returns or raises) and exits
HcReport(printed) ==
    /\ UNCHANGED <<connVars, weatherVars, adapterVars, config>>
    /\ hc_pc = "report"
    /\ hc_pc' = "exited"
    /\ hc_exc' = IF printed THEN NoException
                 ELSE [kind |-> "Exception", message |-> "print_results failed"]
    /\ hc_exit' = ExitCode(OverallStatus(hc_checks), printed)
    /\ UNCHANGED <<hc_self, hc_reply, hc_lines_read, hc_pos, hc_checks>>

\* before main runs there is no HealthChecker
HealthIdle ==
    /\ hc_pc = "idle"
    /\ hc_self = [mcp_url |-> Unset, mcp_token |-> Unset, ha_url |-> Unset,
                  ha_token |-> Unset]
    /\ hc_reply = NoneVal
    /\ hc_lines_read = 0
    /\ hc_pos = 0
    /\ hc_checks = [environment |-> NoneVal, mcp_connection |-> NoneVal,
                    rest_api |-> NoneVal]
    /\ hc_exc = NoException
    /\ hc_exit = -1

HealthNext ==
    \/ HcStart
    \/ \E reply \in BridgeReplies : HcMcpReply(reply)
    \/ HcReadLine
    \/ HcStreamEnd
    \/ \E o \in RestOutcomes : HcRestReply(o)
    \/ \E printed \in BOOLEAN : HcReport(printed)

---------------------------------------------------------------------------
(* The specifications.                                                     *)

\* the connector and the orchestrator at rest
ConnIdle ==
    /\ ConnInit
    /\ \A n \in EnvNames : Truthy(environ[n])
    /\ \A n \in ConfigEnvNames : environ[n] = Unset

AdapterInit ==
    /\ tool_pc = "idle"
    /\ tool_call = [fn |-> "", arg |-> ""]
    /\ tool_backend = NoneVal
    /\ tool_local = NoneVal
    /\ tool_ret = NoneVal
    /\ tool_exc = NoException

\* config.py line 119: config = load_config(), at import
ConfigLoaded == config = LoadConfig

Init == ConnInit /\ WeatherInit /\ AdapterInit /\ HealthIdle /\ ConfigLoaded

Next == ConnNext

\* session startup: create_mcp_server and entrypoint
Spec == Init /\ [][Next]_vars

WeatherSpecInit ==
    ConnIdle /\ WeatherInit /\ AdapterInit /\ HealthIdle /\ ConfigLoaded

\* get_weather calls of concurrent tasks
SpecWeather == WeatherSpecInit /\ [][WeatherNext]_vars

\* get_weather calls made one after the other
SpecWeatherInTurn == WeatherSpecInit /\ [][WeatherInTurnNext]_vars

AdapterSpecInit ==
    ConnIdle /\ WeatherInit /\ AdapterInit /\ HealthIdle /\ ConfigLoaded

HealthSpecInit ==
    /\ ConnInit /\ WeatherInit /\ AdapterInit /\ HealthIdle /\ ConfigLoaded
    /\ environ["HA_MCP_RETRY_ATTEMPTS"] = Unset

\* the weather adapter in a process that has served CachePrefill addresses
CacheSpecInit ==
    ConnIdle /\ CachePrefilledInit /\ AdapterInit /\ HealthIdle /\ ConfigLoaded

SpecCache == CacheSpecInit /\ [][CacheNext]_vars

\* os.environ[name] = value, or del os.environ[name], by any code of the
\* process after config.py was imported
Putenv(name, value) ==
    /\ UNCHANGED <<weatherVars, adapterVars, healthVars, config>>
    /\ environ[name] # value
    /\ environ' = [environ EXCEPT ![name] = value]
    /\ UNCHANGED <<calls, cms_pc, cms_caller, cms_ret, cms_exc, cmsLocals,
                   ep_pc, ep_session, ep_exc>>

SessionNext ==
    \/ ConnNext
    \/ \E name \in EnvNames : \E value \in EnvValues(name) :
           Putenv(name, value)

\* the worker process from the import of config.py on: sessions, and changes
\* of the process environment
SpecSession == Init /\ [][SessionNext]_vars

\* one run of health_check.main
SpecHealth == HealthSpecInit /\ [][HealthNext]_vars

\* one call of search_web, get_time_smart or get_system_status
SpecAdapters == AdapterSpecInit /\ [][AdapterNext]_vars

---------------------------------------------------------------------------
(* What the recorded calls say about one run of the connector.             *)

IsConstruct(c) == c.fn = "MCPServerHTTP"
IsSleep(c) == c.fn = "sleep"
IsSessionCall(c) ==
    c.fn \in {"session.start", "ctx.connect", "session.generate_reply"}

Constructs == SelectSeq(calls, IsConstruct)
FailedConstructs == SelectSeq(calls, LAMBDA c : IsConstruct(c) /\ ~c.ok)
GoodConstructs == SelectSeq(calls, LAMBDA c : IsConstruct(c) /\ c.ok)
Sleeps == SelectSeq(calls, IsSleep)
SessionCalls == SelectSeq(calls, IsSessionCall)

\* the 1-indexed number of the attempt that calls[i] belongs to
AttemptNo(i) == Len(SelectSeq(SubSeq(calls, 1, i), IsConstruct))

CmsConfigured == Truthy(cms_url) /\ Truthy(cms_token)

\* C1: with the bridge URL or the token missing or empty, create_mcp_server
\* returns None at once: no MCPServerHTTP is constructed and nothing is waited.
C1_MissingEnvReturnsAbsent ==
    (cms_pc # "idle" /\ ~CmsConfigured) =>
        /\ cms_pc = "returned"
        /\ cms_ret = NoneVal
        /\ cms_exc = NoException
        /\ Constructs = <<>>
        /\ Sleeps = <<>>

C1_Witness ==
    /\ cms_pc = "returned"
    /\ Truthy(cms_url)
    /\ cms_token = ""
    /\ cms_max_retries = 2

\* C2: k failed attempts (k < max_retries) followed by a successful one make
\* create_mcp_server return the handle of that attempt after exactly k+1
\* constructions; nothing is constructed after the first success.
C2_SuccessAfterFailures ==
    /\ \A i \in 1..Len(calls) :
         (IsConstruct(calls[i]) /\ calls[i].ok) =>
             /\ \A j \in (i+1)..Len(calls) : ~IsConstruct(calls[j])
             /\ cms_pc \in {"sleep_created", "returned"}
    /\ (cms_pc = "returned" /\ GoodConstructs # <<>>) =>
         /\ IsPresent(cms_ret)
         /\ cms_ret = GoodConstructs[1].obj
         /\ Len(GoodConstructs) = 1
         /\ Len(FailedConstructs) < cms_max_retries
         /\ Len(Constructs) = Len(FailedConstructs) + 1
         /\ cms_exc = NoException

C2_Witness ==
    /\ cms_pc = "returned"
    /\ IsPresent(cms_ret)
    /\ Len(FailedConstructs) = 2
    /\ Len(Constructs) = 3

\* C3: when every attempt fails, create_mcp_server makes exactly max_retries
\* constructions and returns None; no exception ever leaves the function.
C3_ExhaustionReturnsAbsent ==
    /\ cms_exc = NoException
    /\ cms_pc # "raised"
    /\ Len(Constructs) <= cms_max_retries
    /\ (cms_pc = "returned" /\ CmsConfigured /\ GoodConstructs = <<>>) =>
         /\ cms_ret = NoneVal
         /\ Len(FailedConstructs) = cms_max_retries

C3_Witness ==
    /\ cms_pc = "returned"
    /\ CmsConfigured
    /\ cms_ret = NoneVal
    /\ cms_max_retries = 4
    /\ Len(FailedConstructs) = 4

\* C4: when create_mcp_server returned None to entrypoint, entrypoint never
\* builds or starts the session, never connects the room and never issues the
\* opening turn: it ends by raising "MCP server connection failed".
C4_NoSessionWithoutBridge ==
    (cms_caller = "entrypoint" /\ cms_pc = "returned" /\ ~IsPresent(cms_ret)) =>
        /\ SessionCalls = <<>>
        /\ ep_session = NoneVal
        /\ ep_pc \in {"await_mcp", "raised"}
        /\ ep_pc = "raised" =>
             ep_exc = [kind |-> "Exception",
                       message |-> "MCP server connection failed"]

C4_Witness ==
    /\ ep_pc = "raised"
    /\ cms_caller = "entrypoint"
    /\ cms_pc = "returned"
    /\ ~IsPresent(cms_ret)
    /\ Len(FailedConstructs) = DEFAULT_MAX_RETRIES

\* C5: entrypoint's calls come in the order session.start (with the handle
\* create_mcp_server returned), ctx.connect, session.generate_reply, each at
\* most once and all after the successful construction of the handle; a run
\* that ends normally has made all three.
C5_StartupOrder ==
    /\ \A i \in 1..Len(SessionCalls) :
         SessionCalls[i].fn =
             <<"session.start", "ctx.connect", "session.generate_reply">>[i]
    /\ Len(SessionCalls) <= 3
    /\ \A i \in 1..Len(calls) :
         IsSessionCall(calls[i]) =>
             /\ cms_pc = "returned"
             /\ IsPresent(cms_ret)
             /\ \E j \in 1..(i-1) :
                  /\ IsConstruct(calls[j])
                  /\ calls[j].ok
                  /\ calls[j].obj = cms_ret
             /\ ep_session = AgentSession(cms_ret)
             /\ calls[i].fn = "session.start" => calls[i].obj = cms_ret
    /\ ep_pc = "done" => Len(SessionCalls) = 3

C5_Witness ==
    /\ ep_pc = "done"
    /\ Len(FailedConstructs) = 2
    /\ Len(SessionCalls) = 3

\* C9: the 5 s wait happens at most once, right after the construction of
\* attempt 1; after a construction of a later attempt the wait is 3 s; after
\* the failure of attempt i with attempts left the wait is 3*i s, so these
\* waits grow strictly; after the failure of the last attempt nothing is waited.
C9_DelaySchedule ==
    /\ \A i \in 1..Len(calls) :
         IsSleep(calls[i]) =>
             /\ i > 1
             /\ IsConstruct(calls[i-1])
             /\ calls[i-1].ok =>
                  calls[i].secs = IF AttemptNo(i) = 1 THEN 5 ELSE 3
             /\ ~calls[i-1].ok =>
                  /\ calls[i].secs = 3 * AttemptNo(i)
                  /\ AttemptNo(i) < cms_max_retries
             /\ calls[i].secs = 5 => (i = 2 /\ calls[1].ok)
    /\ \A i \in 1..Len(calls) :
         (IsConstruct(calls[i]) /\ i < Len(calls)) => IsSleep(calls[i+1])
    /\ \A i \in 1..Len(calls) :
         (IsConstruct(calls[i]) /\ ~calls[i].ok /\ cms_pc # "loop"
          /\ AttemptNo(i) < cms_max_retries) => i < Len(calls)
    /\ \A i, j \in 1..Len(calls) :
         (i < j /\ IsSleep(calls[i]) /\ IsSleep(calls[j])
          /\ ~calls[i-1].ok /\ ~calls[j-1].ok) =>
             calls[i].secs < calls[j].secs
    /\ Len(SelectSeq(calls, LAMBDA c : IsSleep(c) /\ c.secs = 5)) <= 1

C9_Witness ==
    /\ cms_pc = "returned"
    /\ IsPresent(cms_ret)
    /\ Len(Sleeps) = 3
    /\ Sleeps[1].secs = 3
    /\ Sleeps[2].secs = 6
    /\ Sleeps[3].secs = 3

---------------------------------------------------------------------------
(* The adapters.                                                           *)

\* C6: every adapter call ends by returning a string; no exception leaves an
\* adapter, whatever its backing service or library does.
C6_AdaptersNeverRaise ==
    /\ tool_pc # "raised"
    /\ tool_exc = NoException
    /\ tool_pc = "done" => tool_ret.kind \in {"str", "fstr"}

GeocodeRequestsFor(address) ==
    SelectSeq(http_requests,
              LAMBDA r : r.host = "nominatim.openstreetmap.org" /\ r.q = address)

\* C7: with get_weather calls made one after the other, an address is sent to
\* the geocoder at most once, every call for a new address sends its own
\* request, and a call that finds its address in the cache gets the location
\* the first call got and raises nothing on the way.
C7_RepeatedAddressServedFromCache ==
    /\ \A a \in Cities : Len(GeocodeRequestsFor(a)) <= 1
    /\ \A t \in Tasks :
         weather_task[t].cache = "miss" =>
             Len(GeocodeRequestsFor(weather_task[t].city)) = 1
    /\ \A t \in Tasks :
         (/\ weather_task[t].cache = "hit"
          /\ IsPresent(geocode_coros[weather_task[t].coro].result)) =>
             /\ weather_task[t].exc.kind # "RuntimeError"
             /\ weather_task[t].loc =
                    geocode_coros[weather_task[t].coro].result

\* C8: with get_weather calls in flight together, no call fails on a coroutine
\* that another call is awaiting, a call that gets a location gets the one of
\* its own city, and the cache holds at most one entry per address.
C8_ConcurrentCallsDoNotInterfere ==
    /\ \A t \in Tasks : weather_task[t].exc # AwaitError("running")
    /\ \A t \in Tasks :
         IsPresent(weather_task[t].loc) =>
             weather_task[t].loc = GeocodeResult(weather_task[t].city, "match")
    /\ \A i, j \in 1..Len(geocode_cache) :
         geocode_cache[i].key = geocode_cache[j].key => i = j

\* C10: search_web answers a result that is None, empty or shorter than 10
\* characters once stripped with the "No relevant results" message, a result
\* of at most 1000 characters with the result itself, and a longer one with
\* its first 1000 characters followed by "...": 1003 characters at most.
\* (The text of a result of the model begins and ends with a letter, so its
\* stripped length is the length of the text.)
C10_SearchResultLength ==
    (tool_call.fn = "search_web" /\ tool_pc = "done"
     /\ tool_backend.outcome \in {"text", "none"}) =>
        LET b == tool_backend
            r == SearchText(b.lead, b.core, b.trail).chars
        IN IF b.outcome = "none" \/ b.core < 10
           THEN tool_ret = NoRelevantResults(tool_call.arg)
           ELSE /\ tool_ret.kind = "str"
                /\ Len(tool_ret.chars) <= 1003
                /\ Len(r) <= 1000 => tool_ret.chars = r
                /\ Len(r) > 1000 =>
                     /\ Len(tool_ret.chars) = 1003
                     /\ \A i \in 1..1000 : tool_ret.chars[i] = r[i]
                     /\ \A i \in 1001..1003 : tool_ret.chars[i] = "."

C10_Witness ==
    /\ tool_call.fn = "search_web"
    /\ tool_pc = "done"
    /\ tool_backend.outcome = "text"
    /\ tool_backend.lead = 0
    /\ tool_backend.trail = 0
    /\ tool_backend.core = 1500
    /\ Len(tool_ret.chars) = 1003

\* C11: get_weather names the failure that occurred: no match at the geocoder
\* gives the "Could not find location" message, a timeout of the geocoding or
\* of the forecast request the "Weather service timeout" message, an HTTP
\* error status of either the "Weather service error" message, any other
\* error the "Could not retrieve weather" message.
C11_MessageNamesTheFailure ==
    \A t \in Tasks :
        weather_task[t].pc = "done" =>
            LET city == weather_task[t].city
                ret == weather_task[t].ret
                geo == geocode_coros[weather_task[t].coro]
                own == weather_task[t].cache = "miss"
                failure ==
                    IF own /\ geo.caught # NoException THEN geo.caught.kind
                    ELSE IF own /\ ~IsPresent(geo.result) THEN "no_match"
                    ELSE weather_task[t].exc.kind
            IN /\ failure = "no_match" => ret = LocationNotFound(city)
               /\ failure = "TimeoutException" => ret = WeatherTimeout(city)
               /\ failure = "HTTPStatusError" => ret = WeatherHttpError(city)
               /\ failure \in {"Exception", "RuntimeError"} =>
                      ret = WeatherUnavailable(city)
               /\ failure = "NoException" =>
                      ret \notin {LocationNotFound(city), WeatherTimeout(city),
                                  WeatherHttpError(city),
                                  WeatherUnavailable(city)}

\* the status of a check, "pending" until the check has returned
CheckStatus(name) ==
    IF hc_checks[name].kind = "result" THEN hc_checks[name].status
    ELSE "pending"

C12_CleanRun ==
    /\ hc_pc = "exited"
    /\ \A name \in DOMAIN hc_checks : CheckStatus(name) \in {"success", "warning"}
    /\ hc_exc = NoException
    /\ hc_exit = 0

\* C13: the REST check is optional: when the environment check and the
\* bridge check succeed, the overall status is success and the exit code 0,
\* whatever the REST check reports.
C13_RestCheckIsOptional ==
    (/\ hc_pc \in {"report", "exited"}
     /\ CheckStatus("environment") = "success"
     /\ CheckStatus("mcp_connection") = "success") =>
        /\ OverallStatus(hc_checks) = "success"
        /\ (hc_pc = "exited" /\ hc_exc = NoException) => hc_exit = 0

\* the number of non-empty lines among the first n lines of a stream
RECURSIVE NonEmptyLines(_, _)
NonEmptyLines(lines, n) ==
    IF n = 0 THEN 0
    ELSE NonEmptyLines(lines, n - 1)
         + (IF Strip(lines[n]) # <<>> THEN 1 ELSE 0)

\* C14: check_mcp_connection reports success only if the GET returned status
\* 200; it counts the non-empty lines it reads and stops at the third; a
\* timeout is reported as "MCP connection timeout", every other failure as
\* an error with another message; every outcome gives a result, none raises.
C14_BridgeProbeOutcomes ==
    LET probe == hc_checks.mcp_connection
        returned == probe.kind = "result"
        configured == Truthy(hc_self.mcp_url) /\ Truthy(hc_self.mcp_token)
        answered == hc_reply # NoneVal
        timed_out == /\ answered
                     /\ \/ hc_reply.kind = "timeout"
                        \/ /\ hc_reply.kind = "response"
                           /\ hc_reply.status = HTTP_OK
                           /\ hc_reply.ending = "timeout"
                           /\ hc_lines_read < 3
    IN /\ hc_pc \in {"rest_get", "report", "exited"} => returned
       /\ hc_lines_read <= 3
       /\ answered =>
            /\ hc_lines_read = NonEmptyLines(hc_reply.lines, hc_pos)
            /\ hc_lines_read = 3 => Strip(hc_reply.lines[hc_pos]) # <<>>
       /\ hc_pc = "mcp_lines" => hc_lines_read < 3
       /\ returned =>
            /\ probe.status \in {"success", "error"}
            /\ probe.status = "success" =>
                 /\ answered /\ hc_reply.kind = "response"
                 /\ hc_reply.status = HTTP_OK
                 /\ probe = McpSuccess(hc_self.mcp_url, hc_lines_read)
            /\ probe = McpTimeout <=> timed_out
            /\ (probe.status = "error" /\ ~timed_out) =>
                 \/ ~configured /\ probe = McpNotConfigured
                 \/ /\ answered /\ hc_reply.kind = "response"
                    /\ hc_reply.status # HTTP_OK
                    /\ probe = McpBadStatus(hc_reply.status)
                 \/ /\ answered
                    /\ hc_reply.kind = "error" \/ hc_reply.ending = "error"
                    /\ probe = McpFailed

\* the probe stopped at the third non-empty line with more of the stream left
C14_Witness ==
    /\ hc_checks.mcp_connection.kind = "result"
    /\ hc_checks.mcp_connection.status = "success"
    /\ hc_lines_read = 3
    /\ hc_pos < Len(hc_reply.lines)

\* the stream went silent before its third non-empty line
C14_StreamTimeout ==
    /\ hc_checks.mcp_connection = McpTimeout
    /\ hc_reply # NoneVal /\ hc_reply.kind = "response"
    /\ hc_lines_read = 2

\* C15: the bridge URL and the token are resolved once at startup: whatever
\* happens to the process environment afterwards, create_mcp_server works
\* with the values the configuration object took at import.
C15_SessionUsesStartupConfig ==
    (cms_pc # "idle" /\ IsPresent(config.home_assistant)) =>
        /\ cms_url = config.home_assistant.mcp_url
        /\ cms_token = config.home_assistant.mcp_token
        /\ IsPresent(cms_server) =>
             cms_server.url = config.home_assistant.mcp_url

\* the retry-attempt count of the configuration: HA_MCP_RETRY_ATTEMPTS, 3
\* when the variable is unset
ConfiguredAttempts == IntOf(GetenvOr("HA_MCP_RETRY_ATTEMPTS", "3"))

\* C17: the call of create_mcp_server by entrypoint makes at most as many
\* attempts as HA_MCP_RETRY_ATTEMPTS says (3 when unset) and returns None
\* after exactly that many consecutive failures.
C17_AttemptsFollowConfiguredCount ==
    cms_caller = "entrypoint" =>
        /\ Len(Constructs) <= ConfiguredAttempts
        /\ (cms_pc = "returned" /\ CmsConfigured /\ GoodConstructs = <<>>) =>
             /\ cms_ret = NoneVal
             /\ Len(FailedConstructs) = ConfiguredAttempts

\* the keys a cache holds
KeysOf(cache) == {cache[i].key : i \in 1..Len(cache)}

\* the position in the calls of geocode of the last call with an address
LastUse(address, log) ==
    CHOOSE i \in 1..Len(log) :
        log[i] = address /\ \A j \in (i+1)..Len(log) : log[j] # address

\* what a step does to the cache of geocode
CacheStep ==
    LET old == KeysOf(geocode_cache)
        new == KeysOf(geocode_cache')
        called == geocode_calls' # geocode_calls
        address == geocode_calls'[Len(geocode_calls')]
    IN /\ geocode_cache' # geocode_cache => called
       /\ called =>
            /\ address \in new
            /\ address \in old =>
                 /\ new = old
                 /\ geocode_coros' = geocode_coros
            /\ address \notin old =>
                 /\ Len(geocode_coros') = Len(geocode_coros) + 1
                 /\ geocode_coros'[Len(geocode_coros')].address = address
                 /\ Len(geocode_cache) < LRU_MAXSIZE => new = old \cup {address}
       /\ \A k \in old \ new :
            /\ called
            /\ Len(geocode_cache) = LRU_MAXSIZE
            /\ address \notin old
            /\ new = (old \ {k}) \cup {address}
            /\ \A k2 \in old :
                 LastUse(k, geocode_calls) <= LastUse(k2, geocode_calls)

\* C16: the cache of geocode never holds more than 100 entries; an entry is
\* under the exact string geocode was called with; the cache changes only
\* when geocode is called, and an entry leaves it only when a new address is
\* inserted into the full cache, and then it is the least recently used one.
C16_CacheBoundedLru ==
    /\ [](/\ Len(geocode_cache) <= 100
          /\ Cardinality(KeysOf(geocode_cache)) = Len(geocode_cache)
          /\ \A i \in 1..Len(geocode_cache) :
               geocode_coros[geocode_cache[i].value].address
                   = geocode_cache[i].key)
    /\ [][CacheStep]_vars

\* the hundred-and-first address has evicted the second address of the
\* process, not the first, which was asked for again in between; "London"
\* and "london" are two entries
C16_Witness ==
    /\ Len(geocode_cache) = 100
    /\ PrefillAddress(1) \in CacheKeys
    /\ PrefillAddress(2) \notin CacheKeys
    /\ {"London", "london"} \subseteq CacheKeys

=============================================================================
